---- MODULE Spec2Model ----
(***************************************************************************)
(* echodb: a transactional in-memory database.  One Database (an atomic    *)
(* cell holding the committed ordered map, and a fair async mutex that     *)
(* serialises writers) and a bounded number of Transaction handles, each   *)
(* with a private snapshot.  Every method of Transaction is one action;    *)
(* Database::begin(true) is split at its only suspension point, the await  *)
(* on the write lock.                                                      *)
(***************************************************************************)
EXTENDS Integers, Sequences, FiniteSets, TLC

\* ---------------------------------------------------------------- bounds
MaxTx == 2
MaxKey == 2
MaxVal == 2
MaxLimit == 2

Tx == 1..MaxTx
K == 1..MaxKey
V == 1..MaxVal
\* Option::None, for an Option<V> and for a key absent from an OrdMap
None == 0
OptV == V \cup {None}
\* range bounds: one position past the largest key, so that hi can exclude nothing
Bounds == 1..(MaxKey + 1)
Limits == 0..MaxLimit
\* the range calls of the concurrent clients: from the first key up to any bound
Scans == {<<1, end, limit>> : end \in Bounds, limit \in Limits}

\* ------------------------------------------------------------ the OrdMap
\* An OrdMap<K, V> is a function from every key to its value or None (absent).
Maps == [K -> OptV]
\* OrdMap::new()
EmptyMap == [k \in K |-> None]
\* OrdMap::contains_key
ContainsKey(m, k) == m[k] # None
\* OrdMap::get(..).cloned()
GetKey(m, k) == m[k]
\* OrdMap::insert / VacantEntry::insert / OccupiedEntry::insert
Insert(m, k, v) == [m EXCEPT ![k] = v]
\* OrdMap::remove / OccupiedEntry::remove
Remove(m, k) == [m EXCEPT ![k] = None]

\* a faulty range that takes the end bound as inclusive
InRangeClosed(m, beg, end) == {k \in K : m[k] # None /\ beg <= k /\ k <= end}
\* a faulty range that reads an inverted range backwards instead of as empty
InRangeEitherWay(m, beg, end) ==
    {k \in K : m[k] # None /\ ((beg <= k /\ k < end) \/ (end <= k /\ k < beg))}
\* The keys of m in beg..end (beg inclusive, end exclusive)
InRange(m, beg, end) == {k \in K : m[k] # None /\ beg <= k /\ k < end}
Min(S) == CHOOSE x \in S : \A y \in S : x <= y
\* OrdMap::range(beg..end): the keys of the range in ascending order
RECURSIVE Ascending(_)
Ascending(S) == IF S = {} THEN <<>> ELSE <<Min(S)>> \o Ascending(S \ {Min(S)})
\* Iterator::take(limit)
Take(s, n) == SubSeq(s, 1, IF n < Len(s) THEN n ELSE Len(s))
\* snapshot.range(beg..end).take(limit).map(|(k, _)| k.clone()).collect()
RangeKeys(m, beg, end, limit) == Take(Ascending(InRange(m, beg, end)), limit)
\* snapshot.range(beg..end).take(limit).map(|(k, v)| (k.clone(), v.clone())).collect()
RangeScan(m, beg, end, limit) ==
    LET ks == RangeKeys(m, beg, end, limit)
    IN  [i \in 1..Len(ks) |-> <<ks[i], m[ks[i]]>>]

\* ----------------------------------------------------------------- state
VARIABLES
    datastore,  \* Database.datastore: the committed map in the ArcSwap cell
    locked,     \* Database.writelock: is the mutex held
    waiters,    \* Database.writelock: the pending lock_owned() futures, oldest first
    pc,         \* per handle: "none" (not begun), "waiting" (in begin(true)), "live", "dropped"
    done,       \* Transaction.done
    write,      \* Transaction.write
    snapshot,   \* Transaction.snapshot
    writelock,  \* Transaction.writelock is Some(guard)
    last,       \* the most recent call: its handle, method, arguments and result
    acquired,   \* the handles in the order in which lock_owned() returned to them
    published,  \* the successful commits in order: [tx, map stored, muts: the writer's delta]
    delta,      \* per handle: the net effect of its own successful mutations, per key
    serial,     \* the committed writers' mutations applied one writer after the other
    base,       \* per handle: the map the cell held when its begin loaded the snapshot
    seen        \* per handle: how many commits had been published when its begin loaded

vars == <<datastore, locked, waiters, pc, done, write, snapshot, writelock,
          last, acquired, published, delta, serial, base, seen>>

\* a key this handle has not touched, in delta
Untouched == -1

\* a call as its caller sees it: the handle, the method, the error and the value returned
Call(t, op, err, out) == [tx |-> t, op |-> op, err |-> err, out |-> out]

\* a range call: the call with the range and the limit it was given
Ranged(c, beg, end, limit) ==
    [tx |-> c.tx, op |-> c.op, err |-> c.err, out |-> c.out, rng |-> <<beg, end, limit>>]

Init ==
    /\ datastore = EmptyMap
    /\ locked = FALSE
    /\ waiters = <<>>
    /\ pc = [t \in Tx |-> "none"]
    /\ done = [t \in Tx |-> FALSE]
    /\ write = [t \in Tx |-> FALSE]
    /\ snapshot = [t \in Tx |-> EmptyMap]
    /\ writelock = [t \in Tx |-> FALSE]
    /\ last = Call(0, "new", "Ok", 0)
    /\ acquired = <<>>
    /\ published = <<>>
    /\ delta = [t \in Tx |-> [k \in K |-> Untouched]]
    /\ serial = EmptyMap
    /\ base = [t \in Tx |-> EmptyMap]
    /\ seen = [t \in Tx |-> 0]


\* ------------------------------------------------- the pieces of the code
\* a faulty load: the writer edits the shared map in place, so a load sees uncommitted edits
LoadDirty ==
    IF \E u \in Tx : writelock[u]
    THEN snapshot[CHOOSE u \in Tx : writelock[u]]
    ELSE datastore
\* db.datastore.load(): the map the cell holds at this instant, cloned
Load == datastore
\* a faulty begin(true) that does not wait for the mutex
LockIgnored == TRUE
\* Mutex::lock_owned() completes only when the mutex is free
LockAvailable == ~locked
\* a faulty begin(true) that drops the guard at its end instead of moving it into the handle
LockDroppedAtOnce == FALSE
\* the OwnedMutexGuard that begin hands to Transaction::write keeps the mutex locked
LockOwned == TRUE
\* a faulty handle that works on the shared cell instead of its own clone
ViewCell(t) == datastore
\* the map a handle's reads and writes work on: self.snapshot
View(t) == snapshot[t]
\* a faulty commit that merges the snapshot's entries into the cell and so loses its deletions
StoreMerged(t) == [k \in K |-> IF snapshot[t][k] # None THEN snapshot[t][k] ELSE datastore[k]]
\* a faulty commit that releases the lock without publishing
StoreNothing(t) == datastore
\* self.database.datastore.store(Arc::new(self.snapshot.clone()))
Store(t) == snapshot[t]
\* if let Some(lock) = self.writelock.take() { drop(lock) }: is the mutex still locked after
\* a faulty release that leaves the mutex locked when the guard goes away
ReleaseNever(t) == locked
Release(t) == IF writelock[t] THEN FALSE ELSE locked

\* Each method as a function of the handle's fields: the error it returns and
\* the snapshot it leaves.  The done check comes first, then the write check.
Result(e, m) == [err |-> e, snap |-> m]

\* a faulty set whose write check is inverted
setInverted(d, w, m, k, v) ==
    IF d THEN Result("TxClosed", m)
    ELSE IF w THEN Result("TxNotWritable", m)
    ELSE Result("Ok", Insert(m, k, v))

set(d, w, m, k, v) ==
    IF d THEN Result("TxClosed", m)
    ELSE IF ~w THEN Result("TxNotWritable", m)
    ELSE Result("Ok", Insert(m, k, v))

\* a faulty put that inserts over an existing entry, as set does
putAlways(d, w, m, k, v) ==
    IF d THEN Result("TxClosed", m)
    ELSE IF ~w THEN Result("TxNotWritable", m)
    ELSE Result("Ok", Insert(m, k, v))

\* a faulty put that overwrites the entry before it reports that the key exists
putOverwrites(d, w, m, k, v) ==
    IF d THEN Result("TxClosed", m)
    ELSE IF ~w THEN Result("TxNotWritable", m)
    ELSE IF ~ContainsKey(m, k) THEN Result("Ok", Insert(m, k, v))
    ELSE Result("KeyAlreadyExists", Insert(m, k, v))

put(d, w, m, k, v) ==
    IF d THEN Result("TxClosed", m)
    ELSE IF ~w THEN Result("TxNotWritable", m)
    ELSE IF ~ContainsKey(m, k) THEN Result("Ok", Insert(m, k, v))
    ELSE Result("KeyAlreadyExists", m)

\* a faulty putc without the guard v.get() == w on an occupied entry
putcAnyValue(d, w, m, k, v, chk) ==
    IF d THEN Result("TxClosed", m)
    ELSE IF ~w THEN Result("TxNotWritable", m)
    ELSE IF ContainsKey(m, k) /\ chk # None THEN Result("Ok", Insert(m, k, v))
    ELSE IF ~ContainsKey(m, k) /\ chk = None THEN Result("Ok", Insert(m, k, v))
    ELSE Result("ValNotExpectedValue", m)

putc(d, w, m, k, v, chk) ==
    IF d THEN Result("TxClosed", m)
    ELSE IF ~w THEN Result("TxNotWritable", m)
    ELSE IF ContainsKey(m, k) /\ chk # None /\ GetKey(m, k) = chk THEN Result("Ok", Insert(m, k, v))
    ELSE IF ~ContainsKey(m, k) /\ chk = None THEN Result("Ok", Insert(m, k, v))
    ELSE Result("ValNotExpectedValue", m)

del(d, w, m, k) ==
    IF d THEN Result("TxClosed", m)
    ELSE IF ~w THEN Result("TxNotWritable", m)
    ELSE Result("Ok", Remove(m, k))

\* a faulty delc without the guard v.get() == w on an occupied entry
delcAnyValue(d, w, m, k, chk) ==
    IF d THEN Result("TxClosed", m)
    ELSE IF ~w THEN Result("TxNotWritable", m)
    ELSE IF ContainsKey(m, k) /\ chk # None THEN Result("Ok", Remove(m, k))
    ELSE IF ~ContainsKey(m, k) /\ chk = None THEN Result("Ok", m)
    ELSE Result("ValNotExpectedValue", m)

delc(d, w, m, k, chk) ==
    IF d THEN Result("TxClosed", m)
    ELSE IF ~w THEN Result("TxNotWritable", m)
    ELSE IF ContainsKey(m, k) /\ chk # None /\ GetKey(m, k) = chk THEN Result("Ok", Remove(m, k))
    ELSE IF ~ContainsKey(m, k) /\ chk = None THEN Result("Ok", m)
    ELSE Result("ValNotExpectedValue", m)

\* a faulty commit that checks the write flag before the done flag
commitWriteFirst(d, w) == IF ~w THEN "TxNotWritable" ELSE IF d THEN "TxClosed" ELSE "Ok"
\* commit and cancel: the error they return
commit(d, w) == IF d THEN "TxClosed" ELSE IF ~w THEN "TxNotWritable" ELSE "Ok"
cancel(d) == IF d THEN "TxClosed" ELSE "Ok"

\* the replay of one writer's net mutations on a map
Replay(m, dl) == [k \in K |-> IF dl[k] = Untouched THEN m[k] ELSE dl[k]]

\* ---------------------------------------------------------------- actions
live(t) == pc[t] = "live"
\* handles are numbered in the order of their begin calls
NextHandle(t) == pc[t] = "none" /\ \A u \in Tx : u < t => pc[u] # "none"

\* a faulty begin(false) that waits until no writer holds the lock
BeginReadLocks(t) ==
    /\ NextHandle(t)
    /\ LockAvailable
    /\ pc' = [pc EXCEPT ![t] = "live"]
    /\ done' = [done EXCEPT ![t] = FALSE]
    /\ write' = [write EXCEPT ![t] = FALSE]
    /\ snapshot' = [snapshot EXCEPT ![t] = Load]
    /\ writelock' = [writelock EXCEPT ![t] = FALSE]
    /\ last' = Call(t, "begin_read", "Ok", 0)
    /\ base' = [base EXCEPT ![t] = datastore]
    /\ seen' = [seen EXCEPT ![t] = Len(published)]
    /\ UNCHANGED <<datastore, locked, waiters, acquired, published, delta, serial>>

\* Database::begin(false): Transaction::read with no lock; never waits
BeginRead(t) ==
    /\ NextHandle(t)
    /\ pc' = [pc EXCEPT ![t] = "live"]
    /\ done' = [done EXCEPT ![t] = FALSE]
    /\ write' = [write EXCEPT ![t] = FALSE]
    /\ snapshot' = [snapshot EXCEPT ![t] = Load]
    /\ writelock' = [writelock EXCEPT ![t] = FALSE]
    /\ last' = Call(t, "begin_read", "Ok", 0)
    /\ base' = [base EXCEPT ![t] = datastore]
    /\ seen' = [seen EXCEPT ![t] = Len(published)]
    /\ UNCHANGED <<datastore, locked, waiters, acquired, published, delta, serial>>

\* Database::begin(true) up to its await: the lock_owned() future joins the queue
BeginWrite(t) ==
    /\ NextHandle(t)
    /\ pc' = [pc EXCEPT ![t] = "waiting"]
    /\ waiters' = Append(waiters, t)
    /\ last' = Call(t, "begin_wait", "Ok", 0)
    /\ UNCHANGED <<datastore, locked, done, write, snapshot, writelock,
                   acquired, published, delta, serial, base, seen>>

\* a faulty mutex that hands the free lock to any waiter, not the oldest
AcquireAny(t) ==
    /\ pc[t] = "waiting"
    /\ LockAvailable
    /\ waiters' = SelectSeq(waiters, LAMBDA u : u # t)
    /\ locked' = LockOwned
    /\ pc' = [pc EXCEPT ![t] = "live"]
    /\ done' = [done EXCEPT ![t] = FALSE]
    /\ write' = [write EXCEPT ![t] = TRUE]
    /\ snapshot' = [snapshot EXCEPT ![t] = Load]
    /\ writelock' = [writelock EXCEPT ![t] = LockOwned]
    /\ acquired' = Append(acquired, t)
    /\ last' = Call(t, "begin_write", "Ok", 0)
    /\ base' = [base EXCEPT ![t] = datastore]
    /\ seen' = [seen EXCEPT ![t] = Len(published)]
    /\ UNCHANGED <<datastore, published, delta, serial>>

\* Database::begin(true) after its await: the oldest waiter gets the guard,
\* then Transaction::write loads the snapshot
Acquire(t) ==
    /\ pc[t] = "waiting"
    /\ waiters # <<>>
    /\ Head(waiters) = t
    /\ LockAvailable
    /\ waiters' = Tail(waiters)
    /\ locked' = LockOwned
    /\ pc' = [pc EXCEPT ![t] = "live"]
    /\ done' = [done EXCEPT ![t] = FALSE]
    /\ write' = [write EXCEPT ![t] = TRUE]
    /\ snapshot' = [snapshot EXCEPT ![t] = Load]
    /\ writelock' = [writelock EXCEPT ![t] = LockOwned]
    /\ acquired' = Append(acquired, t)
    /\ last' = Call(t, "begin_write", "Ok", 0)
    /\ base' = [base EXCEPT ![t] = datastore]
    /\ seen' = [seen EXCEPT ![t] = Len(published)]
    /\ UNCHANGED <<datastore, published, delta, serial>>

\* the future of a pending begin(true) is dropped before it got the lock
DropPending(t) ==
    /\ pc[t] = "waiting"
    /\ pc' = [pc EXCEPT ![t] = "dropped"]
    /\ waiters' = SelectSeq(waiters, LAMBDA u : u # t)
    /\ last' = Call(t, "drop_pending", "Ok", 0)
    /\ UNCHANGED <<datastore, locked, done, write, snapshot, writelock,
                   acquired, published, delta, serial, base, seen>>

\* Transaction::closed
Closed(t) ==
    /\ live(t)
    /\ last' = Call(t, "closed", "Ok", done[t])
    /\ UNCHANGED <<datastore, locked, waiters, pc, done, write, snapshot, writelock,
                   acquired, published, delta, serial, base, seen>>

\* a faulty cancel that marks the handle done but keeps its guard
CancelKeepsGuard(t) ==
    /\ live(t)
    /\ LET e == cancel(done[t]) IN
        /\ last' = Call(t, "cancel", e, 0)
        /\ IF e = "Ok"
           THEN done' = [done EXCEPT ![t] = TRUE]
           ELSE UNCHANGED done
    /\ UNCHANGED <<datastore, locked, writelock, waiters, pc, write, snapshot,
                   acquired, published, delta, serial, base, seen>>

\* a faulty cancel that publishes the snapshot, as commit does
CancelPublishes(t) ==
    /\ live(t)
    /\ LET e == cancel(done[t]) IN
        /\ last' = Call(t, "cancel", e, 0)
        /\ IF e = "Ok"
           THEN /\ done' = [done EXCEPT ![t] = TRUE]
                /\ datastore' = snapshot[t]
                /\ locked' = Release(t)
                /\ writelock' = [writelock EXCEPT ![t] = FALSE]
           ELSE UNCHANGED <<done, datastore, locked, writelock>>
    /\ UNCHANGED <<waiters, pc, write, snapshot, acquired, published, delta, serial, base, seen>>

\* Transaction::cancel
Cancel(t) ==
    /\ live(t)
    /\ LET e == cancel(done[t]) IN
        /\ last' = Call(t, "cancel", e, 0)
        /\ IF e = "Ok"
           THEN /\ done' = [done EXCEPT ![t] = TRUE]
                /\ locked' = Release(t)
                /\ writelock' = [writelock EXCEPT ![t] = FALSE]
           ELSE UNCHANGED <<done, locked, writelock>>
    /\ UNCHANGED <<datastore, waiters, pc, write, snapshot, acquired, published, delta, serial, base, seen>>

\* Transaction::commit
Commit(t) ==
    /\ live(t)
    /\ LET e == commit(done[t], write[t]) IN
        /\ last' = Call(t, "commit", e, 0)
        /\ IF e = "Ok"
           THEN /\ done' = [done EXCEPT ![t] = TRUE]
                /\ datastore' = Store(t)
                /\ locked' = Release(t)
                /\ writelock' = [writelock EXCEPT ![t] = FALSE]
                /\ published' = Append(published, [tx |-> t, map |-> datastore', muts |-> delta[t]])
                /\ serial' = Replay(serial, delta[t])
           ELSE UNCHANGED <<done, datastore, locked, writelock, published, serial>>
    /\ UNCHANGED <<waiters, pc, write, snapshot, acquired, delta, base, seen>>

\* Transaction::exists
Exists(t, k) ==
    /\ live(t)
    /\ last' = IF done[t] THEN Call(t, "exists", "TxClosed", 0)
               ELSE Call(t, "exists", "Ok", ContainsKey(View(t), k))
    /\ UNCHANGED <<datastore, locked, waiters, pc, done, write, snapshot, writelock,
                   acquired, published, delta, serial, base, seen>>

\* Transaction::get
Get(t, k) ==
    /\ live(t)
    /\ last' = IF done[t] THEN Call(t, "get", "TxClosed", 0)
               ELSE Call(t, "get", "Ok", GetKey(View(t), k))
    /\ UNCHANGED <<datastore, locked, waiters, pc, done, write, snapshot, writelock,
                   acquired, published, delta, serial, base, seen>>

\* what a mutating method does to the handle: r is its Result, dv what it
\* leaves in key k when it succeeds (Untouched: it had nothing to change)
Mutate(t, op, k, r, dv) ==
    /\ snapshot' = [snapshot EXCEPT ![t] = r.snap]
    /\ last' = Call(t, op, r.err, 0)
    /\ delta' = IF r.err = "Ok" /\ dv # Untouched THEN [delta EXCEPT ![t][k] = dv] ELSE delta
    /\ UNCHANGED <<datastore, locked, waiters, pc, done, write, writelock,
                   acquired, published, serial, base, seen>>

\* Transaction::set
Set(t, k, v) ==
    /\ live(t)
    /\ Mutate(t, "set", k, set(done[t], write[t], View(t), k, v), v)

\* Transaction::put
Put(t, k, v) ==
    /\ live(t)
    /\ Mutate(t, "put", k, put(done[t], write[t], View(t), k, v), v)

\* Transaction::putc
Putc(t, k, v, chk) ==
    /\ live(t)
    /\ Mutate(t, "putc", k, putc(done[t], write[t], View(t), k, v, chk), v)

\* Transaction::del
Del(t, k) ==
    /\ live(t)
    /\ Mutate(t, "del", k, del(done[t], write[t], View(t), k), None)

\* Transaction::delc
Delc(t, k, chk) ==
    /\ live(t)
    /\ Mutate(t, "delc", k, delc(done[t], write[t], View(t), k, chk),
              IF chk = None THEN Untouched ELSE None)

\* Transaction::keys
Keys(t, beg, end, limit) ==
    /\ live(t)
    /\ last' = Ranged(IF done[t] THEN Call(t, "keys", "TxClosed", 0)
                       ELSE Call(t, "keys", "Ok", RangeKeys(View(t), beg, end, limit)),
                       beg, end, limit)
    /\ UNCHANGED <<datastore, locked, waiters, pc, done, write, snapshot, writelock,
                   acquired, published, delta, serial, base, seen>>

\* Transaction::scan
Scan(t, beg, end, limit) ==
    /\ live(t)
    /\ last' = Ranged(IF done[t] THEN Call(t, "scan", "TxClosed", 0)
                       ELSE Call(t, "scan", "Ok", RangeScan(View(t), beg, end, limit)),
                       beg, end, limit)
    /\ UNCHANGED <<datastore, locked, waiters, pc, done, write, snapshot, writelock,
                   acquired, published, delta, serial, base, seen>>

\* a faulty drop that forgets the guard instead of dropping it
DropLeaks(t) ==
    /\ live(t)
    /\ pc' = [pc EXCEPT ![t] = "dropped"]
    /\ locked' = locked
    /\ writelock' = [writelock EXCEPT ![t] = FALSE]
    /\ done' = [done EXCEPT ![t] = FALSE]
    /\ write' = [write EXCEPT ![t] = FALSE]
    /\ snapshot' = [snapshot EXCEPT ![t] = EmptyMap]
    /\ delta' = [delta EXCEPT ![t] = [k \in K |-> Untouched]]
    /\ last' = Call(t, "drop", "Ok", IF writelock[t] THEN 1 ELSE 0)
    /\ base' = [base EXCEPT ![t] = EmptyMap]
    /\ seen' = [seen EXCEPT ![t] = 0]
    /\ UNCHANGED <<datastore, waiters, acquired, published, serial>>

\* the handle goes out of scope: its fields are dropped, the guard with them;
\* out records whether a guard went with them
Drop(t) ==
    /\ live(t)
    /\ pc' = [pc EXCEPT ![t] = "dropped"]
    /\ locked' = Release(t)
    /\ writelock' = [writelock EXCEPT ![t] = FALSE]
    /\ done' = [done EXCEPT ![t] = FALSE]
    /\ write' = [write EXCEPT ![t] = FALSE]
    /\ snapshot' = [snapshot EXCEPT ![t] = EmptyMap]
    /\ delta' = [delta EXCEPT ![t] = [k \in K |-> Untouched]]
    /\ last' = Call(t, "drop", "Ok", IF writelock[t] THEN 1 ELSE 0)
    /\ base' = [base EXCEPT ![t] = EmptyMap]
    /\ seen' = [seen EXCEPT ![t] = 0]
    /\ UNCHANGED <<datastore, waiters, acquired, published, serial>>

Next ==
    \E t \in Tx :
        \/ BeginRead(t)
        \/ BeginWrite(t)
        \/ Acquire(t)
        \/ DropPending(t)
        \/ Closed(t)
        \/ Cancel(t)
        \/ Commit(t)
        \/ Drop(t)
        \/ \E k \in K : Exists(t, k) \/ Get(t, k) \/ Del(t, k)
        \/ \E k \in K, v \in V : Set(t, k, v) \/ Put(t, k, v)
        \/ \E k \in K, v \in V, chk \in OptV : Putc(t, k, v, chk)
        \/ \E k \in K, chk \in OptV : Delc(t, k, chk)
        \/ \E r \in Scans : Keys(t, r[1], r[2], r[3]) \/ Scan(t, r[1], r[2], r[3])

Spec == Init /\ [][Next]_vars

\* an active writer is ended: committed, cancelled or dropped
Finish(t) == live(t) /\ write[t] /\ ~done[t] /\ (Commit(t) \/ Cancel(t) \/ Drop(t))

\* The same program under fair scheduling: a pending begin(true) that can
\* take the lock is resumed, and no caller keeps an active writer for ever.
SpecFair == Spec /\ \A t \in Tx : WF_vars(Acquire(t)) /\ WF_vars(Finish(t))

\* ------------------------------------------- one handle, every argument
\* A database whose committed map is any map m, and one handle begun on it:
\* read-only or writeable, terminated or not.  Its point methods are called
\* with every key, value and expectation.
Handle == 1

InitOps ==
    \E m \in Maps, w \in BOOLEAN, d \in BOOLEAN :
        /\ datastore = m
        /\ locked = (w /\ ~d)
        /\ waiters = <<>>
        /\ pc = [t \in Tx |-> IF t = Handle THEN "live" ELSE "none"]
        /\ done = [t \in Tx |-> t = Handle /\ d]
        /\ write = [t \in Tx |-> t = Handle /\ w]
        /\ snapshot = [t \in Tx |-> IF t = Handle THEN m ELSE EmptyMap]
        /\ writelock = [t \in Tx |-> t = Handle /\ w /\ ~d]
        /\ last = Call(0, "new", "Ok", 0)
        /\ acquired = IF w THEN <<Handle>> ELSE <<>>
        /\ published = <<>>
        /\ delta = [t \in Tx |-> [k \in K |-> Untouched]]
        /\ serial = m
        /\ base = [t \in Tx |-> IF t = Handle THEN m ELSE EmptyMap]
        /\ seen = [t \in Tx |-> 0]

NextOps ==
    \/ Closed(Handle)
    \/ Cancel(Handle)
    \/ Commit(Handle)
    \/ \E k \in K : Exists(Handle, k) \/ Get(Handle, k) \/ Del(Handle, k)
    \/ \E k \in K, v \in V : Set(Handle, k, v) \/ Put(Handle, k, v)
    \/ \E k \in K, v \in V, chk \in OptV : Putc(Handle, k, v, chk)
    \/ \E k \in K, chk \in OptV : Delc(Handle, k, chk)

SpecOps == InitOps /\ [][NextOps]_vars

\* the same handle, its range methods called with every range and limit
NextRange ==
    \E beg \in Bounds, end \in Bounds, limit \in Limits :
        Keys(Handle, beg, end, limit) \/ Scan(Handle, beg, end, limit)

SpecRange == InitOps /\ [][NextRange]_vars

\* ---------------------------------------------------------------- claims
Reads == {"exists", "get", "keys", "scan"}
Writes == {"set", "put", "putc", "del", "delc"}
ActiveR(t) == live(t) /\ ~write[t] /\ ~done[t]
ActiveW(t) == live(t) /\ write[t] /\ ~done[t]
\* the step is a call on handle t of method op
Called(t, op) == last'.tx = t /\ last'.op = op
\* the step is a successful commit
Committed == last'.op = "commit" /\ last'.err = "Ok"
\* the map published by the i-th successful commit; the empty initial map for i = 0
PublishedAt(i) == IF i = 0 THEN EmptyMap ELSE published[i].map
\* what handle t must see: the map its begin loaded, with its own mutations
Own(t) == Replay(base[t], delta[t])
NoMuts == [k \in K |-> Untouched]

\* C1 - Snapshot stability: every get, exists, keys and scan on a handle that
\* is not done returns what it returns on the map the cell held when the
\* handle's begin loaded it, modified by the handle's own successful
\* mutations; no step of another handle changes what the handle sees.
SnapshotStability ==
    [][\A t \in Tx : (live(t) /\ ~done[t]) =>
          /\ Called(t, "get") =>
                \A k \in K : Get(t, k) =>
                    last'.err = "Ok" /\ last'.out = GetKey(Own(t), k)
          /\ Called(t, "exists") =>
                \A k \in K : Exists(t, k) =>
                    last'.err = "Ok" /\ last'.out = ContainsKey(Own(t), k)
          /\ Called(t, "keys") =>
                \A r \in Scans : Keys(t, r[1], r[2], r[3]) =>
                    last'.err = "Ok" /\ last'.out = RangeKeys(Own(t), r[1], r[2], r[3])
          /\ Called(t, "scan") =>
                \A r \in Scans : Scan(t, r[1], r[2], r[3]) =>
                    last'.err = "Ok" /\ last'.out = RangeScan(Own(t), r[1], r[2], r[3])
          /\ last'.tx # t => snapshot'[t] = snapshot[t] /\ Own(t)' = Own(t)
      ]_vars

\* a reader whose snapshot predates a later commit has just read, and did not see it
SnapshotStabilityWitness ==
    \E t \in Tx :
        /\ live(t) /\ ~done[t]
        /\ seen[t] < Len(published)
        /\ base[t] # datastore
        /\ last.tx = t /\ last.op = "get" /\ last.err = "Ok"
        /\ \E k \in K : datastore[k] # None /\ base[t][k] = None /\ last.out = None

\* C2 - Writer exclusion: at most one handle is Active-W (write, not done),
\* at most one handle holds the guard, and a begin(true) stays pending while
\* another write transaction is neither committed, cancelled nor dropped.
WriterExclusion ==
    /\ Cardinality({t \in Tx : ActiveW(t)}) <= 1
    /\ Cardinality({t \in Tx : writelock[t]}) <= 1
    /\ \A t \in Tx : ActiveW(t) => locked

\* one writer is active while a second begin(true) is pending behind it
WriterExclusionWitness ==
    \E t \in Tx, u \in Tx : ActiveW(t) /\ pc[u] = "waiting" /\ Head(waiters) = u

\* C3 - No lost update: a write transaction's snapshot is loaded after it got
\* the token, so it starts from the map of the last successful commit, and
\* the committed map is always the committed writers' mutations applied one
\* writer after the other.
NoLostUpdate ==
    /\ datastore = serial
    /\ \A t \in Tx : ActiveW(t) =>
          /\ base[t] = PublishedAt(Len(published))
          /\ seen[t] = Len(published)

\* two writers have committed, and a key written by the first and left alone
\* by the second is still in the committed map
NoLostUpdateWitness ==
    /\ Len(published) = 2
    /\ published[1].tx # published[2].tx
    /\ published[2].muts # NoMuts
    /\ \E k \in K :
          /\ published[1].muts[k] \in V
          /\ published[2].muts[k] = Untouched
          /\ datastore[k] = published[1].muts[k]

\* C4 - Commit linearization: the committed map changes only at a successful
\* commit, each successful commit stores the snapshot of the committing
\* writer, which is the writer that acquired the token last, so the maps are
\* published in token-acquisition order, one per successful commit.
CommitLinearization ==
    [][/\ IF Committed
          THEN /\ acquired # <<>>
               /\ acquired[Len(acquired)] = last'.tx
               /\ datastore' = snapshot[last'.tx]
               /\ Len(published') = Len(published) + 1
               /\ published'[Len(published')].tx = last'.tx
          ELSE /\ datastore' = datastore
               /\ published' = published
       /\ datastore' = IF published' = <<>> THEN EmptyMap
                       ELSE published'[Len(published')].map
       /\ \A i \in 1..Len(published'), j \in 1..Len(published') :
             i < j => \E a \in 1..Len(acquired), b \in 1..Len(acquired) :
                         /\ a < b
                         /\ acquired[a] = published'[i].tx
                         /\ acquired[b] = published'[j].tx
      ]_vars

\* two writers committed different maps, in the order in which they got the token
CommitLinearizationWitness ==
    /\ Len(published) = 2
    /\ Len(acquired) = 2
    /\ published[1].tx = acquired[1]
    /\ published[2].tx = acquired[2]
    /\ published[1].map # EmptyMap
    /\ published[2].map # published[1].map
    /\ datastore = published[2].map

\* C5 - Round trip of a committed write: a read-only handle whose begin
\* follows, with no commit in between, the successful commit of a writer that
\* left value v in key k answers get(k) = Some(v) and exists(k) = true.
RoundTrip ==
    [][\A t \in Tx : (ActiveR(t) /\ seen[t] > 0) =>
          \A k \in K : published[seen[t]].muts[k] \in V =>
              /\ Get(t, k) =>
                    last'.err = "Ok" /\ last'.out = published[seen[t]].muts[k]
              /\ Exists(t, k) => last'.err = "Ok" /\ last'.out = TRUE
      ]_vars

\* a reader begun right after a commit has read a value that commit wrote
RoundTripWitness ==
    \E t \in Tx, k \in K :
        /\ ActiveR(t) /\ seen[t] > 0
        /\ published[seen[t]].muts[k] \in V
        /\ last = Call(t, "get", "Ok", published[seen[t]].muts[k])
        /\ snapshot[t][k] = last.out

\* C6 - Atomic visibility at begin: the snapshot a begin hands out is the
\* empty initial map or exactly the map of the latest successful commit: all
\* of that commit, nothing of a later one, no mixture, and nothing of the
\* uncommitted mutations of a writer that is still active.
AtomicVisibility ==
    [][\A t \in Tx : (~live(t) /\ live(t)') =>
          /\ snapshot'[t] = PublishedAt(Len(published))
          /\ seen'[t] = Len(published)
          /\ \A i \in 1..Len(published') : i > seen'[t] => published'[i].tx # t
      ]_vars

\* a handle has just begun while a writer holds uncommitted mutations
AtomicVisibilityWitness ==
    \E t \in Tx, u \in Tx :
        /\ last = Call(t, "begin_read", "Ok", 0)
        /\ ActiveW(u)
        /\ delta[u] # NoMuts
        /\ snapshot[u] # datastore
        /\ snapshot[t] = datastore

\* C7 - The committed map is changed only by a successful commit, which
\* replaces it with the committing handle's snapshot; every other call and
\* every failing commit leaves it unchanged, so a handle begun after a writer
\* mutated and cancelled gets the map as it was.
CommittedFrame ==
    [][/\ IF Committed THEN datastore' = snapshot[last'.tx]
                       ELSE datastore' = datastore
       /\ last'.op \in {"begin_read", "begin_write"} =>
             snapshot'[last'.tx] = datastore
      ]_vars

\* a writer mutated its snapshot and cancelled, and a handle begun afterwards sees nothing of it
CommittedFrameWitness ==
    \E t \in Tx, u \in Tx :
        /\ live(t) /\ write[t] /\ done[t]
        /\ \A i \in 1..Len(published) : published[i].tx # t
        /\ delta[t] # NoMuts
        /\ snapshot[t] # datastore
        /\ last = Call(u, "begin_read", "Ok", 0)
        /\ snapshot[u] = base[t]

\* C8 - A read-only handle that is not done rejects set, put, putc, del, delc
\* and commit with TxNotWritable, keeps its snapshot and stays not done; its
\* cancel succeeds and its reads work.
ReadOnlyRejects ==
    [][\A t \in Tx : (ActiveR(t) /\ last'.tx = t) =>
          /\ last'.op \in Writes \cup {"commit"} =>
                /\ last'.err = "TxNotWritable"
                /\ snapshot'[t] = snapshot[t]
                /\ live(t)' /\ ~done'[t] /\ ~write'[t]
          /\ last'.op = "cancel" => last'.err = "Ok" /\ done'[t]
          /\ last'.op \in Reads => last'.err = "Ok"
      ]_vars

\* a read-only handle that is not done has just had its commit rejected
ReadOnlyRejectsWitness ==
    \E t \in Tx : ActiveR(t) /\ last = Call(t, "commit", "TxNotWritable", 0)

\* C9 - Done monotonicity: a handle terminated by commit or cancel stays done,
\* closed() answers true and every other method answers TxClosed, also on a
\* read-only handle; the first cancel of a handle that is not done succeeds.
DoneMonotonic ==
    [][\A t \in Tx :
          /\ (live(t) /\ done[t]) =>
                /\ live(t)' => done'[t]
                /\ (last'.tx = t /\ last'.op \in Reads \cup Writes \cup {"commit", "cancel"}) =>
                      last'.err = "TxClosed"
                /\ Called(t, "closed") => last'.out = TRUE
          /\ (live(t) /\ ~done[t] /\ Called(t, "cancel")) =>
                last'.err = "Ok" /\ done'[t]
      ]_vars

\* a read-only handle was cancelled and its commit then answered TxClosed
DoneMonotonicWitness ==
    \E t \in Tx :
        live(t) /\ done[t] /\ ~write[t] /\ last = Call(t, "commit", "TxClosed", 0)

\* C10 - Errors are not terminal: a call that returns TxNotWritable,
\* KeyAlreadyExists or ValNotExpectedValue changes no field of any handle, nor
\* the lock, nor the committed map; done is set only by a successful commit
\* or cancel of that handle.
ErrorsNotTerminal ==
    [][/\ last'.err \in {"TxNotWritable", "KeyAlreadyExists", "ValNotExpectedValue"} =>
             UNCHANGED <<pc, done, write, snapshot, writelock, locked, waiters, datastore>>
       /\ \A t \in Tx : (live(t) /\ ~done[t] /\ live(t)' /\ done'[t]) =>
             last'.tx = t /\ last'.op \in {"commit", "cancel"} /\ last'.err = "Ok"
      ]_vars

\* a writer's conditional write has just failed and the writer is still active
ErrorsNotTerminalWitness ==
    \E t \in Tx :
        /\ ActiveW(t)
        /\ last.tx = t /\ last.op \in {"putc", "delc"} /\ last.err = "ValNotExpectedValue"
        /\ delta[t] # NoMuts

\* C11 - Conditional write: on an active writer putc(k, v, expected) succeeds
\* iff the snapshot's current value of k equals expected (None: k is absent),
\* and then leaves v in k; otherwise it answers ValNotExpectedValue and the
\* snapshot is unchanged.
ConditionalWrite ==
    [][\A t \in Tx : (ActiveW(t) /\ Called(t, "putc")) =>
          \A k \in K, v \in V, chk \in OptV : Putc(t, k, v, chk) =>
              IF snapshot[t][k] = chk
              THEN /\ last'.err = "Ok"
                   /\ snapshot'[t] = [j \in K |-> IF j = k THEN v ELSE snapshot[t][j]]
              ELSE /\ last'.err = "ValNotExpectedValue"
                   /\ snapshot'[t] = snapshot[t]
      ]_vars

\* a putc has just failed on a writer all of whose keys are present
ConditionalWriteWitness ==
    \E t \in Tx :
        /\ ActiveW(t)
        /\ last = Call(t, "putc", "ValNotExpectedValue", 0)
        /\ \A k \in K : snapshot[t][k] \in V

\* C12 - put inserts only if absent: on an active writer put(k, v) inserts on
\* an absent key and answers KeyAlreadyExists on a present one, leaving the
\* snapshot unchanged; set(k, v) always succeeds and overwrites.
PutIfAbsent ==
    [][\A t \in Tx : ActiveW(t) =>
          /\ Called(t, "put") =>
                \A k \in K, v \in V : Put(t, k, v) =>
                    IF snapshot[t][k] = None
                    THEN /\ last'.err = "Ok"
                         /\ snapshot'[t] = [j \in K |-> IF j = k THEN v ELSE snapshot[t][j]]
                    ELSE /\ last'.err = "KeyAlreadyExists"
                         /\ snapshot'[t] = snapshot[t]
          /\ Called(t, "set") =>
                \A k \in K, v \in V : Set(t, k, v) =>
                    /\ last'.err = "Ok"
                    /\ snapshot'[t] = [j \in K |-> IF j = k THEN v ELSE snapshot[t][j]]
      ]_vars

\* a put has just failed on the one key of the snapshot, which the writer itself inserted
PutIfAbsentWitness ==
    \E t \in Tx, k \in K :
        /\ ActiveW(t)
        /\ last = Call(t, "put", "KeyAlreadyExists", 0)
        /\ base[t][k] = None /\ delta[t][k] \in V /\ snapshot[t][k] = delta[t][k]
        /\ \A j \in K \ {k} : snapshot[t][j] = None

\* C13 - Delete: on an active writer delc(k, expected) removes k when k is
\* present with value expected, succeeds without effect when k is absent and
\* expected is None, and otherwise answers ValNotExpectedValue with the
\* snapshot unchanged; del(k) always succeeds; neither touches another key.
ConditionalDelete ==
    [][\A t \in Tx : ActiveW(t) =>
          /\ Called(t, "delc") =>
                \A k \in K, chk \in OptV : Delc(t, k, chk) =>
                    IF snapshot[t][k] = chk
                    THEN /\ last'.err = "Ok"
                         /\ snapshot'[t] = [j \in K |-> IF j = k THEN None ELSE snapshot[t][j]]
                    ELSE /\ last'.err = "ValNotExpectedValue"
                         /\ snapshot'[t] = snapshot[t]
          /\ Called(t, "del") =>
                \A k \in K : Del(t, k) =>
                    /\ last'.err = "Ok"
                    /\ snapshot'[t] = [j \in K |-> IF j = k THEN None ELSE snapshot[t][j]]
      ]_vars

\* a delc has just removed a committed key and left the other committed key alone
ConditionalDeleteWitness ==
    \E t \in Tx, k \in K :
        /\ ActiveW(t)
        /\ last = Call(t, "delc", "Ok", 0)
        /\ base[t][k] \in V /\ snapshot[t][k] = None
        /\ \E j \in K \ {k} : base[t][j] \in V /\ snapshot[t][j] = base[t][j]

\* the step is a range call of method op on handle t with this range and limit
Ranging(t, op, beg, end, limit) == Called(t, op) /\ last'.rng = <<beg, end, limit>>
\* the keys a range call has to return, as a sequence
IsFirstKeys(s, m, beg, end, limit) ==
    LET InR == {k \in K : m[k] # None /\ beg <= k /\ k < end}
        n == Cardinality(InR)
    IN  /\ Len(s) = IF limit < n THEN limit ELSE n
        /\ \A i \in 1..Len(s) : s[i] \in InR
        /\ \A i \in 1..Len(s), j \in 1..Len(s) : i < j => s[i] < s[j]
        /\ \A k \in InR : (\A i \in 1..Len(s) : s[i] # k) => \A i \in 1..Len(s) : s[i] < k

\* C14 - Range half-openness: on a handle that is not done keys(lo..hi, n) and
\* scan(lo..hi, n) return the snapshot's entries with lo <= k < hi in strictly
\* increasing key order, the min(n, number in range) smallest of them; scan
\* pairs each key with its snapshot value.
RangeHalfOpen ==
    [][\A t \in Tx : (live(t) /\ ~done[t]) =>
          \A beg \in Bounds, end \in Bounds, limit \in Limits :
              /\ Ranging(t, "keys", beg, end, limit) =>
                    /\ last'.err = "Ok"
                    /\ IsFirstKeys(last'.out, snapshot[t], beg, end, limit)
              /\ Ranging(t, "scan", beg, end, limit) =>
                    /\ last'.err = "Ok"
                    /\ IsFirstKeys([i \in 1..Len(last'.out) |-> last'.out[i][1]],
                                   snapshot[t], beg, end, limit)
                    /\ \A i \in 1..Len(last'.out) :
                          last'.out[i][2] = snapshot[t][last'.out[i][1]]
      ]_vars

\* a scan of the whole key range with limit 1 has returned the smallest of two entries
RangeHalfOpenWitness ==
    \E t \in Tx :
        /\ live(t) /\ ~done[t]
        /\ \A k \in K : snapshot[t][k] \in V
        /\ last.tx = t /\ last.op = "scan" /\ last.err = "Ok"
        /\ last.rng = <<1, MaxKey + 1, 1>>
        /\ last.out = <<(<<1, snapshot[t][1]>>)>>

DropActsAsCancel ==
    [][\A t \in Tx : (ActiveW(t) /\ Called(t, "drop")) =>
          /\ ~locked'
          /\ \A u \in Tx : ~writelock'[u]
          /\ datastore' = datastore
          /\ published' = published
          /\ waiters' = waiters
          /\ waiters # <<>> => pc'[Head(waiters)] = "waiting"
      ]_vars

\* a writer holding the guard has been dropped while a begin(true) was pending
DropActsAsCancelWitness ==
    \E t \in Tx, u \in Tx :
        /\ last = Call(t, "drop", "Ok", 1)
        /\ pc[t] = "dropped"
        /\ waiters = <<u>>
        /\ pc[u] = "waiting"
        /\ ~locked

\* C17 - Readers never block and are never blocked: begin(false) can complete
\* in every state that has a handle to give, whoever holds the token and
\* whoever is queued; set, put, putc, del, delc, commit and cancel of an
\* active writer can complete in every state, whatever readers are active; a
\* pending begin(true) is the only operation that can be unable to complete,
\* and only while the token is held or an older begin(true) is pending.
NonBlocking ==
    /\ \A t \in Tx : NextHandle(t) => ENABLED BeginRead(t)
    /\ \A t \in Tx : ActiveW(t) =>
          /\ ENABLED Commit(t) /\ ENABLED Cancel(t)
          /\ \A k \in K : ENABLED Del(t, k)
          /\ \A k \in K, v \in V : ENABLED Set(t, k, v) /\ ENABLED Put(t, k, v)
          /\ \A k \in K, v \in V, chk \in OptV : ENABLED Putc(t, k, v, chk)
          /\ \A k \in K, chk \in OptV : ENABLED Delc(t, k, chk)
    /\ \A t \in Tx : pc[t] = "waiting" =>
          (ENABLED Acquire(t) <=> (~locked /\ Head(waiters) = t))

\* a read-only handle has begun while a writer holds the token
NonBlockingWitness ==
    \E t \in Tx, u \in Tx :
        /\ ActiveW(t) /\ writelock[t] /\ locked
        /\ ActiveR(u)
        /\ last = Call(u, "begin_read", "Ok", 0)

\* C18 - Writer progress: begin(true) returns only from a state where the
\* token is free, and takes it; commit and cancel of a writer leave the token
\* free; under fair scheduling, with every active writer eventually ended,
\* every pending begin(true) eventually returns an active writer (unless its
\* future is dropped first).
WriterProgress ==
    /\ [][\A t \in Tx :
            /\ Called(t, "begin_write") => (~locked /\ locked' /\ ActiveW(t)')
            /\ (write[t] /\ last'.tx = t /\ last'.op \in {"commit", "cancel"} /\ last'.err = "Ok")
                  => ~locked'
         ]_vars
    /\ \A t \in Tx : (pc[t] = "waiting") ~> (ActiveW(t) \/ pc[t] = "dropped")

\* a begin(true) issued second has returned after the first writer committed
WriterProgressWitness ==
    /\ acquired = <<1, 2>>
    /\ last = Call(2, "begin_write", "Ok", 0)
    /\ ActiveW(2) /\ writelock[2]
    /\ live(1) /\ done[1] /\ Len(published) = 1

TokenOwnership ==
    /\ \A t \in Tx : writelock[t] <=> ActiveW(t)
    /\ locked <=> \E t \in Tx : ActiveW(t)
    /\ \A t \in Tx, u \in Tx : (ActiveW(t) /\ ActiveW(u)) => t = u

\* a writer has been cancelled beside an active reader: nobody holds the token
TokenOwnershipWitness ==
    \E t \in Tx, u \in Tx :
        /\ last = Call(t, "cancel", "Ok", 0)
        /\ live(t) /\ write[t] /\ done[t] /\ ~writelock[t]
        /\ ActiveR(u) /\ ~writelock[u]
        /\ ~locked

====
